---- MODULE Spec2Model ----
(***************************************************************************)
(* Area and cost calculator of know-your-home: compute_areas as written in *)
(* src/app.py (Streamlit front end) and src/main.py (FastAPI back end),    *)
(* together with the two places that call it.                              *)
(*                                                                         *)
(* Representation of Python values                                         *)
(*   - a str that is only compared for equality (bhk, answer labels) is a  *)
(*     TLA+ string; decorative emoji of the option labels are written as   *)
(*     ASCII tags in brackets, e.g. "Yes, frequently [party]";             *)
(*   - a str that is lower-cased before comparison (workspace, rental) is  *)
(*     a sequence of one-character strings, so that str.lower is computed; *)
(*   - answers (a dict) is a function whose DOMAIN is the set of keys      *)
(*     present;                                                            *)
(*   - plot_size (a float) is a record [kind, e8]: kind "finite" carries   *)
(*     the value e8/8 (a multiple of one eighth of a square foot, exactly  *)
(*     representable in binary64), the other kinds are the floats nan,     *)
(*     inf, -inf and a finite float of magnitude 1e308 ("huge");           *)
(*   - the outcome of a call is [status, value]: status "ok" with the      *)
(*     returned dict, or the name of the exception that was raised.        *)
(***************************************************************************)
EXTENDS Integers, Sequences, FiniteSets

VARIABLES
    via,        \* the front end the request arrives through: "app" or "main"
    bhk, plot_size, workspace, rental, answers,   \* the arguments of the call
    pc,         \* "ready": request not yet computed; "done": call has ended
    result,     \* the outcome of the call for the current request
    prev        \* plot size and outcome of the request before the current one

vars == <<via, bhk, plot_size, workspace, rental, answers, pc, result, prev>>

(***************************************************************************)
(* Bounds of the model.                                                    *)
(***************************************************************************)
\* largest number of keys present in the answers dict of a POSTed payload
MaxAnswerKeys == 2
\* the POSTed plot sizes include 1200 + i * 5/8 for i in 0..MaxPlotSteps
MaxPlotSteps == 2

(***************************************************************************)
(* Python primitives used by compute_areas.                                *)
(***************************************************************************)
\* str.lower on the characters that occur in the modelled flags
LowerChar(c) ==
    CASE c = "Y" -> "y"
      [] c = "E" -> "e"
      [] c = "S" -> "s"
      [] c = "N" -> "n"
      [] c = "O" -> "o"
      [] OTHER   -> c

Lower(s) == [i \in 1..Len(s) |-> LowerChar(s[i])]

\* the str "yes" as a sequence of characters
StrYes == <<"y", "e", "s">>

\* dict.get(key): None when the key is absent
None == "<None>"

Get(d, k) == IF k \in DOMAIN d THEN d[k] ELSE None

\* dict.get(key, default)
GetDefault(d, k, default) == IF k \in DOMAIN d THEN d[k] ELSE default

Max(a, b) == IF a >= b THEN a ELSE b

Abs(n) == IF n < 0 THEN -n ELSE n

RECURSIVE Pow2FloorFrom(_, _)
Pow2FloorFrom(p, n) == IF 2 * p <= n THEN Pow2FloorFrom(2 * p, n) ELSE p

\* largest power of two that is <= n, for n >= 1
Pow2Floor(n) == Pow2FloorFrom(1, n)

(***************************************************************************)
(* round(m/2^s * c) for a binary64 constant c = (A + 2^-B)/D.              *)
(*                                                                         *)
(* The float literal 1.10 is the binary64 number (11 + 2^-50)/10 and 0.8   *)
(* is (8 + 2^-51)/10: both lie slightly ABOVE the decimal they denote.     *)
(* The exact product of v = m/2^s with c is                                *)
(*      x = q + rem/den + t,  q = (m*A) div den, rem = (m*A) mod den,      *)
(*      den = D * 2^s,        t = m * 2^-B / den   (the excess of c).      *)
(* The multiplication rounds x to the nearest binary64 (spacing ulp), and  *)
(* round() then rounds that float to the nearest integer, a float that is  *)
(* exactly half way going to the EVEN integer.  For the magnitudes         *)
(* modelled t and ulp are below 2^-20, so                                  *)
(*   - when rem/den is not 1/2 the result is the integer nearest to        *)
(*     q + rem/den;                                                        *)
(*   - when rem/den = 1/2 the float product is either exactly q + 1/2      *)
(*     (t <= ulp/2: the excess is rounded off, round() goes to the even    *)
(*     neighbour) or q + 1/2 + ulp (t > ulp/2: round() goes up to q + 1).  *)
(* With P = Pow2Floor(2q+1) = 2^(e+1) for 2^e <= x < 2^(e+1), ulp is       *)
(* P * 2^-53, and t <= ulp/2 iff m * excessScale <= P * den where          *)
(* excessScale = 2^(54-B).                                                 *)
(***************************************************************************)
RoundProductAbs(m, A, den, excessScale) ==
    LET q   == (m * A) \div den
        rem == (m * A) % den
    IN  IF 2 * rem < den THEN q
        ELSE IF 2 * rem > den THEN q + 1
        ELSE IF m * excessScale <= Pow2Floor(2 * q + 1) * den
             THEN (IF q % 2 = 0 THEN q ELSE q + 1)
             ELSE q + 1

\* round(n * 1.10) for an int n
RoundTimes110(n) ==
    LET r == RoundProductAbs(Abs(n), 11, 10, 16)
    IN  IF n < 0 THEN -r ELSE r

\* round(float(p) * 0.8) for the float p = e8/8
RoundTimes08(e8) ==
    LET r == RoundProductAbs(Abs(e8), 8, 80, 8)
    IN  IF e8 < 0 THEN -r ELSE r


(***************************************************************************)
(* Outcomes of a call.                                                     *)
(***************************************************************************)
NoValue == [bedrooms |-> 0]

Returned(v) == [status |-> "ok", value |-> v]

Raised(exc) == [status |-> exc, value |-> NoValue]

NotCalled == [status |-> "none", value |-> NoValue]

(***************************************************************************)
(* compute_areas of src/app.py.                                            *)
(***************************************************************************)
\* bhk_map.get(bhk, 2)
bedrooms_app(b) ==
    CASE b = "2 BHK" -> 2
      [] b = "3 BHK" -> 3
      [] b = "4 BHK" -> 4
      [] OTHER       -> 2

\* max(2, bedrooms - 1)
bathrooms_app(bedrooms) == Max(2, bedrooms - 1)

BED_app == 150

BATH_app == 50

CAR_PARK_app == 150

STAIR_PER_FLOOR_app == 75

\* mutant: the Q10 branch is tested before the Q9 / Q12 branch
LIVING_app_q10_first(a) ==
    IF Get(a, "Q10") \in {"Terrace parties [night]", "Indoor gatherings [dinner]"}
    THEN 200
    ELSE IF Get(a, "Q9") = "Yes, frequently [party]" \/ Get(a, "Q12") = "Yes, large gatherings"
    THEN 220
    ELSE 180

\* living room: 180, grown to 220 or else to 200
LIVING_app(a) ==
    IF Get(a, "Q9") = "Yes, frequently [party]" \/ Get(a, "Q12") = "Yes, large gatherings"
    THEN 220
    ELSE IF Get(a, "Q10") \in {"Terrace parties [night]", "Indoor gatherings [dinner]"}
    THEN 200
    ELSE 180

\* kitchen: 70, or 80 for indoor gatherings
KITCHEN_app(a) == IF Get(a, "Q10") = "Indoor gatherings [dinner]" THEN 80 ELSE 70

\* workspace: by Q19 when the flag lower-cases to "yes", else 0
WORKSPACE_SIZE_app(w, a) ==
    IF Lower(w) = StrYes
    THEN LET q19 == GetDefault(a, "Q19", "")
         IN  IF q19 = "Yes, need a home office [laptop]" THEN 80
             ELSE IF q19 = "Occasionally" THEN 40
             ELSE 30
    ELSE 0

\* rental / commercial portion
RENTAL_SIZE_app(r) == IF Lower(r) = StrYes THEN 250 ELSE 0

\* outdoor / balcony / garden
OUTDOOR_SIZE_app(a) ==
    IF Get(a, "Q2") = "Gardening or tending to plants [seedling]"
       \/ Get(a, "Q15") = "Must have garden/balcony [herb]"
    THEN 60
    ELSE 0

\* floors heuristic
floors_app(bedrooms) == IF bedrooms >= 3 THEN 2 ELSE 1

\* mutant: one staircase block whatever the number of floors
STAIR_TOTAL_app_single(floors) == STAIR_PER_FLOOR_app

STAIR_TOTAL_app(floors) == STAIR_PER_FLOOR_app * floors

\* mutant: the car park is counted as a usable space
carpet_without_stair_app_with_car_park(bedrooms, bathrooms, living, kitchen, ws, rent, outdoor) ==
    bedrooms * BED_app + bathrooms * BATH_app + living + kitchen + ws + rent + outdoor
    + CAR_PARK_app

\* carpet without staircase (usable spaces)
carpet_without_stair_app(bedrooms, bathrooms, living, kitchen, ws, rent, outdoor) ==
    bedrooms * BED_app
    + bathrooms * BATH_app
    + living
    + kitchen
    + ws
    + rent
    + outdoor

carpet_area_app(cws, stair_total) == cws + stair_total

\* round(carpet_area * 1.10)
built_up_area_app(carpet_area) == RoundTimes110(carpet_area)

\* round(float(plot_size) * 0.8): round() raises ValueError on nan and
\* OverflowError on an infinity; a float near 1e308 gives an int of 308
\* digits, which is not given a value here (status "ok-huge")
plinth_area_app(p) ==
    CASE p.kind = "finite" -> [status |-> "ok", value |-> RoundTimes08(p.e8)]
      [] p.kind = "huge"   -> [status |-> "ok-huge", value |-> 0]
      [] p.kind = "nan"    -> [status |-> "ValueError", value |-> 0]
      [] OTHER             -> [status |-> "OverflowError", value |-> 0]

\* mutant: built_up_area + plinth_area * 2500, the parentheses left out
base_cost_app_unparenthesized(built_up_area, plinth_area) == built_up_area + plinth_area * 2500

base_cost_app(built_up_area, plinth_area) == (built_up_area + plinth_area) * 2500

\* round(base_cost): round of an int is that int
cost_low_app(base_cost) == base_cost

\* round(base_cost * 1.10)
cost_high_app(base_cost) == RoundTimes110(base_cost)

compute_areas_app(b, p, w, r, a) ==
    LET bedrooms   == bedrooms_app(b)
        bathrooms  == bathrooms_app(bedrooms)
        living     == LIVING_app(a)
        kitchen    == KITCHEN_app(a)
        ws         == WORKSPACE_SIZE_app(w, a)
        rent       == RENTAL_SIZE_app(r)
        outdoor    == OUTDOOR_SIZE_app(a)
        floors     == floors_app(bedrooms)
        stair      == STAIR_TOTAL_app(floors)
        cws        == carpet_without_stair_app(bedrooms, bathrooms, living, kitchen,
                                               ws, rent, outdoor)
        carpet     == carpet_area_app(cws, stair)
        built_up   == built_up_area_app(carpet)
        plinth     == plinth_area_app(p)
        base_cost  == base_cost_app(built_up, plinth.value)
    IN  IF plinth.status \notin {"ok", "ok-huge"} THEN Raised(plinth.status)
        \* int * float converts the int to a float first: OverflowError
        \* ("int too large to convert to float") in base_cost * 1.10
        ELSE IF plinth.status = "ok-huge" THEN Raised("OverflowError")
        ELSE Returned(
            [bedrooms |-> bedrooms,
             bathrooms |-> bathrooms,
             floors |-> floors,
             sizes |-> [bedroom |-> BED_app,
                        bathroom |-> BATH_app,
                        living |-> living,
                        kitchen |-> kitchen,
                        car_park |-> CAR_PARK_app,
                        workspace |-> ws,
                        rental |-> rent,
                        outdoor |-> outdoor,
                        staircase |-> STAIR_PER_FLOOR_app],
             carpet_without_stair |-> cws,
             stair_total |-> stair,
             carpet_area |-> carpet,
             built_up_area |-> built_up,
             plinth_area |-> plinth.value,
             cost_low |-> cost_low_app(base_cost),
             cost_high |-> cost_high_app(base_cost)])

(***************************************************************************)
(* compute_areas of src/main.py.                                           *)
(***************************************************************************)
\* mutant: bhk_map.get(bhk, 3)
bedrooms_main_default_3(b) ==
    CASE b = "2 BHK" -> 2
      [] b = "3 BHK" -> 3
      [] b = "4 BHK" -> 4
      [] OTHER       -> 3

\* bhk_map.get(bhk, 2)
bedrooms_main(b) ==
    CASE b = "2 BHK" -> 2
      [] b = "3 BHK" -> 3
      [] b = "4 BHK" -> 4
      [] OTHER       -> 2

\* max(2, bedrooms - 1)
bathrooms_main(bedrooms) == Max(2, bedrooms - 1)

BED_main == 150

BATH_main == 50

CAR_PARK_main == 150

STAIR_PER_FLOOR_main == 75

\* living room: 180, grown to 220 or else to 200
LIVING_main(a) ==
    IF Get(a, "Q9") = "Yes, frequently [party]" \/ Get(a, "Q12") = "Yes, large gatherings"
    THEN 220
    ELSE IF Get(a, "Q10") \in {"Terrace parties [night]", "Indoor gatherings [dinner]"}
    THEN 200
    ELSE 180

\* kitchen: 70, or 80 for indoor gatherings
KITCHEN_main(a) == IF Get(a, "Q10") = "Indoor gatherings [dinner]" THEN 80 ELSE 70

\* mutant: the flag is compared with "Yes" without lower-casing
WORKSPACE_SIZE_main_case_sensitive(w, a) ==
    IF w = <<"Y", "e", "s">>
    THEN LET q19 == GetDefault(a, "Q19", "")
         IN  IF q19 = "Yes, need a home office [laptop]" THEN 80
             ELSE IF q19 = "Occasionally" THEN 40
             ELSE 30
    ELSE 0

\* workspace: by Q19 when the flag lower-cases to "yes", else 0
WORKSPACE_SIZE_main(w, a) ==
    IF Lower(w) = StrYes
    THEN LET q19 == GetDefault(a, "Q19", "")
         IN  IF q19 = "Yes, need a home office [laptop]" THEN 80
             ELSE IF q19 = "Occasionally" THEN 40
             ELSE 30
    ELSE 0

\* rental / commercial portion
RENTAL_SIZE_main(r) == IF Lower(r) = StrYes THEN 250 ELSE 0

\* mutant: drift between the copies, only Q15 is consulted
OUTDOOR_SIZE_main_q15_only(a) ==
    IF Get(a, "Q15") = "Must have garden/balcony [herb]" THEN 60 ELSE 0

\* outdoor / balcony / garden
OUTDOOR_SIZE_main(a) ==
    IF Get(a, "Q2") = "Gardening or tending to plants [seedling]"
       \/ Get(a, "Q15") = "Must have garden/balcony [herb]"
    THEN 60
    ELSE 0

\* floors heuristic
floors_main(bedrooms) == IF bedrooms >= 3 THEN 2 ELSE 1

STAIR_TOTAL_main(floors) == STAIR_PER_FLOOR_main * floors

\* carpet without staircase (usable spaces)
carpet_without_stair_main(bedrooms, bathrooms, living, kitchen, ws, rent, outdoor) ==
    bedrooms * BED_main
    + bathrooms * BATH_main
    + living
    + kitchen
    + ws
    + rent
    + outdoor

carpet_area_main(cws, stair_total) == cws + stair_total

\* round(carpet_area * 1.10)
built_up_area_main(carpet_area) == RoundTimes110(carpet_area)

\* mutant: a tenth of the plinth area (the factor mistyped as 0.08)
plinth_area_main_factor_008(p) ==
    CASE p.kind = "finite" -> [status |-> "ok", value |-> RoundTimes08(p.e8) \div 10]
      [] p.kind = "huge"   -> [status |-> "ok-huge", value |-> 0]
      [] p.kind = "nan"    -> [status |-> "ValueError", value |-> 0]
      [] OTHER             -> [status |-> "OverflowError", value |-> 0]

\* round(float(plot_size) * 0.8): round() raises ValueError on nan and
\* OverflowError on an infinity; a float near 1e308 gives an int of 308
\* digits, which is not given a value here (status "ok-huge")
plinth_area_main(p) ==
    CASE p.kind = "finite" -> [status |-> "ok", value |-> RoundTimes08(p.e8)]
      [] p.kind = "huge"   -> [status |-> "ok-huge", value |-> 0]
      [] p.kind = "nan"    -> [status |-> "ValueError", value |-> 0]
      [] OTHER             -> [status |-> "OverflowError", value |-> 0]

base_cost_main(built_up_area, plinth_area) == (built_up_area + plinth_area) * 2500

\* round(base_cost): round of an int is that int
cost_low_main(base_cost) == base_cost

\* round(base_cost * 1.10)
cost_high_main(base_cost) == RoundTimes110(base_cost)

compute_areas_main(b, p, w, r, a) ==
    LET bedrooms   == bedrooms_main(b)
        bathrooms  == bathrooms_main(bedrooms)
        living     == LIVING_main(a)
        kitchen    == KITCHEN_main(a)
        ws         == WORKSPACE_SIZE_main(w, a)
        rent       == RENTAL_SIZE_main(r)
        outdoor    == OUTDOOR_SIZE_main(a)
        floors     == floors_main(bedrooms)
        stair      == STAIR_TOTAL_main(floors)
        cws        == carpet_without_stair_main(bedrooms, bathrooms, living, kitchen,
                                               ws, rent, outdoor)
        carpet     == carpet_area_main(cws, stair)
        built_up   == built_up_area_main(carpet)
        plinth     == plinth_area_main(p)
        base_cost  == base_cost_main(built_up, plinth.value)
    IN  IF plinth.status \notin {"ok", "ok-huge"} THEN Raised(plinth.status)
        \* int * float converts the int to a float first: OverflowError
        \* ("int too large to convert to float") in base_cost * 1.10
        ELSE IF plinth.status = "ok-huge" THEN Raised("OverflowError")
        ELSE Returned(
            [bedrooms |-> bedrooms,
             bathrooms |-> bathrooms,
             floors |-> floors,
             sizes |-> [bedroom |-> BED_main,
                        bathroom |-> BATH_main,
                        living |-> living,
                        kitchen |-> kitchen,
                        car_park |-> CAR_PARK_main,
                        workspace |-> ws,
                        rental |-> rent,
                        outdoor |-> outdoor,
                        staircase |-> STAIR_PER_FLOOR_main],
             carpet_without_stair |-> cws,
             stair_total |-> stair,
             carpet_area |-> carpet,
             built_up_area |-> built_up,
             plinth_area |-> plinth.value,
             cost_low |-> cost_low_main(base_cost),
             cost_high |-> cost_high_main(base_cost)])


(***************************************************************************)
(* Inputs.                                                                 *)
(***************************************************************************)
Finite(e8) == [kind |-> "finite", e8 |-> e8]

Special(k) == [kind |-> k, e8 |-> 0]

Str_Yes == <<"Y", "e", "s">>

Str_YES == <<"Y", "E", "S">>

Str_yes == <<"y", "e", "s">>

Str_No == <<"N", "o">>

Str_Empty == << >>

\* the keys of answers that compute_areas reads
QKeys == {"Q2", "Q9", "Q10", "Q12", "Q15", "Q19"}

\* a key that is left out of the dict
Absent == "<absent>"

\* the options of the st.radio widgets of the questions compute_areas reads
RadioOptions ==
    [Q2  : {"Gardening or tending to plants [seedling]", "Hosting brunch with friends [glasses]",
            "Sleeping in [sun]", "A short drive [car]"},
     Q9  : {"Yes, frequently [party]", "Occasionally", "Rarely"},
     Q10 : {"Terrace parties [night]", "Indoor gatherings [dinner]", "Quiet family rituals [lamp]"},
     Q12 : {"Yes, large gatherings", "Only close friends", "Rarely"},
     Q15 : {"Must have garden/balcony [herb]", "Moderate", "Prefer enclosed interiors"},
     Q19 : {"Yes, need a home office [laptop]", "Occasionally", "Not required"}]

\* answers of a POSTed payload (Dict[str, str]): any key may be missing and
\* a value may be a string that is no option of the question
PayloadOptions ==
    [Q2  : {Absent, "Gardening or tending to plants [seedling]", "gardening"},
     Q9  : {Absent, "Yes, frequently [party]", "Occasionally"},
     Q10 : {Absent, "Terrace parties [night]", "Indoor gatherings [dinner]", ""},
     Q12 : {Absent, "Yes, large gatherings", "Rarely"},
     Q15 : {Absent, "Must have garden/balcony [herb]", "Moderate"},
     Q19 : {Absent, "Yes, need a home office [laptop]", "Occasionally", "Not required"}]

PresentKeys(rec) == {k \in QKeys : rec[k] # Absent}

\* the dict that holds the keys of rec that are not Absent
ToDict(rec) == [k \in PresentKeys(rec) |-> rec[k]]

\* Streamlit form: every question is answered with one of its options
AppAnswers == {ToDict(rec) : rec \in RadioOptions}

AppBhk == {"2 BHK", "3 BHK", "4 BHK"}

AppFlags == {Str_Yes, Str_No}

\* st.number_input(..., 500, 5000, 1200): an int between 500 and 5000
AppPlotSizes == {Finite(8 * 1200), Finite(8 * 5000)}

\* KYHPayload: bhk, workspace, rental are any str, plot_size any float,
\* answers any Dict[str, str]
MainAnswers == {ToDict(rec) : rec \in {r \in PayloadOptions : Cardinality(PresentKeys(r)) <= MaxAnswerKeys}}

MainBhk == {"2 BHK", "3 BHK", "4 BHK", "5 BHK"}

MainWorkspace == {Str_Yes, Str_YES, Str_Empty}

MainRental == {Str_yes, Str_No}

MainPlotSizes ==
    {Finite(8 * 1200 + 5 * i) : i \in 0..MaxPlotSteps}
    \cup {Finite(8 * 1202), Finite(8 * 1203), Finite(8 * 2000), Finite(-8 * 2000)}
    \cup {Special("nan"), Special("inf"), Special("huge")}

PlotSizesOf(v) == IF v = "app" THEN AppPlotSizes ELSE MainPlotSizes

(***************************************************************************)
(* The state machine: a request arrives through one of the two front ends  *)
(* (Init), the front end calls its copy of compute_areas, and the same     *)
(* request may then be submitted again with another plot size.             *)
(***************************************************************************)
NoPrev == [called |-> FALSE, plot_size |-> Finite(0), result |-> NotCalled]

Init ==
    /\ via \in {"app", "main"}
    /\ bhk \in (IF via = "app" THEN AppBhk ELSE MainBhk)
    /\ plot_size \in (IF via = "app" THEN AppPlotSizes ELSE MainPlotSizes)
    /\ workspace \in (IF via = "app" THEN AppFlags ELSE MainWorkspace)
    /\ rental \in (IF via = "app" THEN AppFlags ELSE MainRental)
    /\ answers \in (IF via = "app" THEN AppAnswers ELSE MainAnswers)
    /\ pc = "ready"
    /\ result = NotCalled
    /\ prev = NoPrev

\* src/app.py: calc = compute_areas(bhk, plot_size, workspace, rental, answers)
GenerateMyHomeReport ==
    /\ via = "app"
    /\ pc = "ready"
    /\ result' = compute_areas_app(bhk, plot_size, workspace, rental, answers)
    /\ pc' = "done"
    /\ UNCHANGED <<via, bhk, plot_size, workspace, rental, answers, prev>>

\* src/main.py: calc = compute_areas(payload.bhk, payload.plot_size, ...)
generate_report ==
    /\ via = "main"
    /\ pc = "ready"
    /\ result' = compute_areas_main(bhk, plot_size, workspace, rental, answers)
    /\ pc' = "done"
    /\ UNCHANGED <<via, bhk, plot_size, workspace, rental, answers, prev>>

\* the form is re-run, or the payload is POSTed again, with plot size p
\* and every other field as before
Resubmit(p) ==
    /\ pc = "done"
    /\ prev' = [called |-> TRUE, plot_size |-> plot_size, result |-> result]
    /\ plot_size' = p
    /\ result' = NotCalled
    /\ pc' = "ready"
    /\ UNCHANGED <<via, bhk, workspace, rental, answers>>

Next ==
    \/ GenerateMyHomeReport
    \/ generate_report
    \/ \E p \in PlotSizesOf(via) : Resubmit(p)

Spec == Init /\ [][Next]_vars


(***************************************************************************)
(* Properties.                                                             *)
(***************************************************************************)
\* the call for the current request has returned a result record
Ok == pc = "done" /\ result.status = "ok"

\* key k of answers is present and holds the label v
Answered(k, v) == k \in DOMAIN answers /\ answers[k] = v

\* every spelling of "yes" in upper and lower case
YesSpellings == {<<a, b, c>> : a \in {"y", "Y"}, b \in {"e", "E"}, c \in {"s", "S"}}

\* n/d rounded to the nearest integer, halves away from zero (n >= 0, d > 0)
RoundHalfAwayFromZero(n, d) == (2 * n + d) \div (2 * d)

\* C1: the returned carpet_without_stair is bedrooms*150 + bathrooms*50 +
\* living + kitchen + workspace + rental + outdoor over the sizes reported
\* under "sizes", and the car park size, 150, is a term of none of
\* carpet_without_stair, carpet_area, built_up_area, cost_low, cost_high.
C1_CarpetExcludesCarPark ==
    Ok =>
        LET v == result.value
            z == v.sizes
            sum == v.bedrooms * 150 + v.bathrooms * 50 + z.living + z.kitchen
                   + z.workspace + z.rental + z.outdoor
        IN  /\ z.bedroom = 150 /\ z.bathroom = 50 /\ z.car_park = 150
            /\ v.carpet_without_stair = sum
            /\ v.carpet_area = sum + v.stair_total
            /\ v.built_up_area = RoundTimes110(sum + v.stair_total)
            /\ v.cost_low = (v.built_up_area + v.plinth_area) * 2500
            /\ v.cost_high = RoundTimes110((v.built_up_area + v.plinth_area) * 2500)

\* a result in which every optional term of the sum is present
C1_Witness ==
    /\ Ok
    /\ result.value.sizes.workspace > 0
    /\ result.value.sizes.rental > 0
    /\ result.value.sizes.outdoor > 0
    /\ result.value.sizes.car_park = 150

\* C2: bedrooms is 2/3/4 for "2 BHK"/"3 BHK"/"4 BHK" and 2 for any other
\* label, bathrooms = max(2, bedrooms - 1), floors = 2 if bedrooms >= 3 else
\* 1, so (bedrooms, bathrooms, floors) is (2,2,1), (3,2,2) or (4,3,2).
C2_BedBathFloors ==
    Ok =>
        LET v == result.value
        IN  /\ v.bedrooms = (IF bhk = "3 BHK" THEN 3 ELSE IF bhk = "4 BHK" THEN 4 ELSE 2)
            /\ v.bathrooms = (IF v.bedrooms - 1 > 2 THEN v.bedrooms - 1 ELSE 2)
            /\ v.floors = (IF v.bedrooms >= 3 THEN 2 ELSE 1)
            /\ <<v.bedrooms, v.bathrooms, v.floors>> \in {<<2, 2, 1>>, <<3, 2, 2>>, <<4, 3, 2>>}

\* an unrecognized label was sized as two bedrooms
C2_Witness == Ok /\ bhk = "5 BHK" /\ result.value.bedrooms = 2 /\ result.value.floors = 1

\* C3: cost_low = round((built_up_area + plinth_area) * 2500) and
\* cost_high = round(cost_low * 1.10), over the areas of the same result.
C3_CostFormula ==
    Ok =>
        LET v == result.value
        IN  /\ v.cost_low = (v.built_up_area + v.plinth_area) * 2500
            /\ v.cost_high = RoundTimes110(v.cost_low)
            /\ 10 * v.cost_high = 11 * v.cost_low

\* scenario 2 of the specification: 4 BHK on 2000 sq ft
C3_Witness ==
    /\ Ok
    /\ result.value.built_up_area = 1672
    /\ result.value.plinth_area = 1600
    /\ result.value.cost_low = 8180000
    /\ result.value.cost_high = 8998000

\* C4: cost_high >= cost_low in every result returned by compute_areas.
C4_CostOrdering == Ok => result.value.cost_high >= result.value.cost_low

\* both requests were computed, with finite plot sizes, the earlier one on
\* the smaller plot
PlotGrew ==
    /\ Ok
    /\ prev.called
    /\ prev.result.status = "ok"
    /\ prev.plot_size.e8 < plot_size.e8

\* C5 as claimed: with every other input fixed, a larger plot size gives a
\* strictly larger plinth_area, cost_low and cost_high.
C5_StrictlyMonotone ==
    PlotGrew =>
        /\ result.value.plinth_area > prev.result.value.plinth_area
        /\ result.value.cost_low > prev.result.value.cost_low
        /\ result.value.cost_high > prev.result.value.cost_high

\* C5 as amended: with every other input fixed, a larger plot size never
\* gives a smaller plinth_area, cost_low or cost_high, and gives strictly
\* larger ones when the plot is larger by 2 sq ft (16 eighths) or more.
C5_Monotone ==
    PlotGrew =>
        /\ result.value.plinth_area >= prev.result.value.plinth_area
        /\ result.value.cost_low >= prev.result.value.cost_low
        /\ result.value.cost_high >= prev.result.value.cost_high
        /\ plot_size.e8 - prev.plot_size.e8 >= 16 =>
              /\ result.value.plinth_area > prev.result.value.plinth_area
              /\ result.value.cost_low > prev.result.value.cost_low
              /\ result.value.cost_high > prev.result.value.cost_high

\* 1202 sq ft and then 1203 sq ft: rounding gives both the plinth area 962
C5_Witness ==
    /\ PlotGrew
    /\ prev.plot_size = Finite(8 * 1202)
    /\ plot_size = Finite(8 * 1203)
    /\ prev.result.value.plinth_area = 962
    /\ result.value.plinth_area = 962

\* C6: built_up_area is carpet_area * 1.10 rounded to the nearest integer,
\* halves away from zero.
C6_BuiltUpHalfAwayFromZero ==
    Ok => result.value.built_up_area
             = RoundHalfAwayFromZero(11 * result.value.carpet_area, 10)

\* C7: living is 220 when Q9 is "Yes, frequently" or Q12 is "Yes, large
\* gatherings" whatever Q10 is; else 200 when Q10 is "Terrace parties" or
\* "Indoor gatherings"; else 180, missing keys included.
C7_LivingSize ==
    Ok =>
        LET hosts == \/ Answered("Q9", "Yes, frequently [party]")
                     \/ Answered("Q12", "Yes, large gatherings")
            celebrates == \/ Answered("Q10", "Terrace parties [night]")
                          \/ Answered("Q10", "Indoor gatherings [dinner]")
            living == result.value.sizes.living
        IN  /\ hosts => living = 220
            /\ (~hosts /\ celebrates) => living = 200
            /\ (~hosts /\ ~celebrates) => living = 180
            /\ living = 200 => (~hosts /\ celebrates)

\* both the 220 condition and the 200 condition are satisfied
C7_Witness ==
    /\ Ok
    /\ Answered("Q9", "Yes, frequently [party]")
    /\ Answered("Q10", "Terrace parties [night]")
    /\ result.value.sizes.living = 220

\* C8: the workspace size is 0 when the flag is not a spelling of "yes",
\* whatever Q19 is; else 80 / 40 by Q19 and 30 for any other or missing
\* Q19; it is in {0, 30, 40, 80} and positive exactly when the flag is yes.
C8_WorkspaceSize ==
    Ok =>
        LET size == result.value.sizes.workspace
            requested == workspace \in YesSpellings
        IN  /\ ~requested => size = 0
            /\ requested =>
                  size = (IF Answered("Q19", "Yes, need a home office [laptop]") THEN 80
                          ELSE IF Answered("Q19", "Occasionally") THEN 40
                          ELSE 30)
            /\ size \in {0, 30, 40, 80}
            /\ size > 0 <=> requested

\* the flag "YES" with Q19 missing gives the fallback 30
C8_Witness ==
    /\ Ok
    /\ workspace = Str_YES
    /\ "Q19" \notin DOMAIN answers
    /\ result.value.sizes.workspace = 30

\* C9: stair_total = 75 * floors and carpet_area = carpet_without_stair +
\* stair_total: the difference is 75 for 2 bedrooms, 150 for 3 and 4.
C9_StairTotal ==
    Ok =>
        LET v == result.value
        IN  /\ v.stair_total = 75 * v.floors
            /\ v.carpet_area = v.carpet_without_stair + v.stair_total
            /\ v.bedrooms = 2 => v.carpet_area - v.carpet_without_stair = 75
            /\ v.bedrooms \in {3, 4} => v.carpet_area - v.carpet_without_stair = 150

\* a two-floor result
C9_Witness ==
    /\ Ok
    /\ result.value.bedrooms = 3
    /\ result.value.floors = 2
    /\ result.value.carpet_area - result.value.carpet_without_stair = 150

\* C10: compute_areas never raises: every call ends with a result record.
C10_NeverRaises == pc = "done" => result.status = "ok"

\* the outcome of each copy of compute_areas on the arguments of the
\* current request
OutcomeOfApp == compute_areas_app(bhk, plot_size, workspace, rental, answers)

OutcomeOfMain == compute_areas_main(bhk, plot_size, workspace, rental, answers)

\* C12: the copy of src/app.py and the copy of src/main.py are equivalent:
\* on the arguments of every call, whichever front end made it, the two
\* copies end alike, with records of the same keys and the same values (or
\* with the same exception): the outcome the call had is the outcome of
\* the copy of app.py and also the outcome of the copy of main.py.
C12_CopiesEquivalent ==
    pc = "done" => (result = OutcomeOfApp /\ result = OutcomeOfMain)

\* a payload the form cannot produce (unknown label, upper-case flag, one
\* answer only) was computed by main.py, and app.py returns the same record
C12_Witness ==
    /\ pc = "done"
    /\ via = "main"
    /\ bhk = "5 BHK"
    /\ workspace = Str_YES
    /\ DOMAIN answers = {"Q2"}
    /\ result.status = "ok"
    /\ result.value.sizes.outdoor = 60
    /\ result.value.sizes.workspace = 30
    /\ OutcomeOfApp = result

====
